---- MODULE Spec2Model ----
(***************************************************************************)
(* A model of takeout.py: create_takeout (the tree walk, the structure     *)
(* guide, the flattening copy, the .txt renaming pass), the detached       *)
(* deletion thread and the two callers (command line, GUI).                *)
(*                                                                         *)
(* File and directory names are sequences of one-character strings, so     *)
(* that endswith, replace and string concatenation are computed as the     *)
(* code computes them.  A path below root_dir is the sequence of its       *)
(* components; the last one is the file name.  A file's content is         *)
(* identified with the source path it was copied from.                     *)
(***************************************************************************)
EXTENDS Naturals, Sequences, FiniteSets, TLC

\* ------------------------------------------------------------ bounds
MaxFiles == 2
MaxRuns  == 2

\* ------------------------------------------------------------ names
SEP == "/"

N_x       == <<"x">>
N_x_txt   == <<"x", ".", "t", "x", "t">>
N_a       == <<"a">>
N_b       == <<"b">>
N_a_b     == <<"a", "_", "b">>
N_old     == <<"o">>
DotGit    == <<".", "g", "i", "t">>
DotTakeout == <<".", "t", "a", "k", "e", "o", "u", "t">>
IgnoreFileName ==
    <<".", "t", "a", "k", "e", "o", "u", "t", "i", "g", "n", "o", "r", "e">>
GuideName ==
    <<"s", "t", "r", "u", "c", "t", "u", "r", "e", "_",
      "g", "u", "i", "d", "e", ".", "t", "x", "t">>
TxtSuffix == <<".", "t", "x", "t">>

\* Lines an ignore file may hold (before stripping).
L_x       == <<"x">>
L_star    == <<"*", ".", "t", "x", "t", " ">>
L_dir     == <<" ", "a", "/">>
L_comment == <<"#", "x">>

\* ------------------------------------------------------------ strings
StartsWith(s, pre) ==
    /\ Len(pre) <= Len(s)
    /\ SubSeq(s, 1, Len(pre)) = pre

EndsWith(s, suf) ==
    /\ Len(suf) <= Len(s)
    /\ SubSeq(s, Len(s) - Len(suf) + 1, Len(s)) = suf

RECURSIVE LStrip(_)
LStrip(s) == IF s # <<>> /\ Head(s) = " " THEN LStrip(Tail(s)) ELSE s

RECURSIVE RStrip(_)
RStrip(s) ==
    IF s # <<>> /\ s[Len(s)] = " " THEN RStrip(SubSeq(s, 1, Len(s) - 1)) ELSE s

Strip(s) == RStrip(LStrip(s))

Replace(s, old, new) == [i \in 1..Len(s) |-> IF s[i] = old THEN new ELSE s[i]]

\* os.path.join(a, b) for a non-empty, relative b.
PathJoin(a, b) == a \o <<SEP>> \o b

BaseName(path) == path[Len(path)]
DirOf(path)    == SubSeq(path, 1, Len(path) - 1)

RECURSIVE JoinAll(_)
JoinAll(comps) ==
    IF Len(comps) = 1 THEN comps[1]
    ELSE PathJoin(JoinAll(SubSeq(comps, 1, Len(comps) - 1)), comps[Len(comps)])

\* os.path.relpath(os.path.dirname(path), root_dir)
RelativeDir(path) == IF DirOf(path) = <<>> THEN <<".">> ELSE JoinAll(DirOf(path))

Perms(S) ==
    {s \in [1..Cardinality(S) -> S] : \A i, j \in 1..Cardinality(S) : s[i] = s[j] => i = j}

\* ------------------------------------------------------------ ignore file
NoFile == [present |-> FALSE, lines |-> {}]

Lines == {L_x, L_star, L_dir, L_comment}

IgnoreFiles ==
    {NoFile} \cup
    {[present |-> TRUE, lines |-> ls] :
        ls \in {{L_x, L_comment}, {L_star}, {L_dir}, Lines}}

\* Lines 33-37: get_ignored_patterns, the file absent or read without error.
ParsePatterns(file) ==
    IF ~file.present THEN {}
    ELSE {Strip(line) :
            line \in {l \in file.lines : Strip(l) # <<>> /\ ~StartsWith(l, <<"#">>)}}

\* ------------------------------------------------------------ filters
AlwaysPruned == {DotGit, DotTakeout}

\* KeepDir without the two names that are always pruned.
KeepDirPatternsOnly(d, pats) == (d \o <<"/">>) \notin pats

\* Line 66: a directory name the copy walk descends into.
KeepDir(d, pats) == (d \o <<"/">>) \notin pats /\ d \notin AlwaysPruned

\* Line 78: the same test, written again for the guide walk.
GuideKeepDir(d, pats) == (d \o <<"/">>) \notin pats /\ d \notin AlwaysPruned

\* FileIgnored without the wildcard test.
FileIgnoredExactOnly(filename, pats) == filename \in pats

\* Line 68: a file name the copy walk skips.
FileIgnored(filename, pats) ==
    \/ filename \in pats
    \/ \E p \in pats : StartsWith(p, <<"*", ".">>) /\ EndsWith(filename, Tail(p))

\* Line 84: a file name the guide lists.
GuideShows(file, pats) ==
    /\ file \notin pats
    /\ ~ \E p \in pats : StartsWith(p, <<"*", ".">>) /\ EndsWith(file, Tail(p))

\* ------------------------------------------------------------ the walks
FilesAt(files, d) == {p \in files : DirOf(p) = d}

SubDirs(files, d) ==
    {SubSeq(p, 1, Len(d) + 1) :
        p \in {q \in files : Len(q) > Len(d) + 1 /\ SubSeq(q, 1, Len(d)) = d}}

\* Lines 65-70: the surviving file paths in the orders os.walk(topdown=True) may
\* discover them: a directory's files first, in any order, then its kept
\* subdirectories, in any order, each walked the same way.
RECURSIVE WalkOrders(_, _, _)
WalkOrders(files, pats, d) ==
    LET here == Perms({p \in FilesAt(files, d) : ~FileIgnored(BaseName(p), pats)})
        subs == {s \in SubDirs(files, d) : KeepDir(BaseName(s), pats)}
        RECURSIVE Chain(_)
        Chain(order) ==
            IF order = <<>> THEN {<<>>}
            ELSE {h \o t : h \in WalkOrders(files, pats, Head(order)),
                           t \in Chain(Tail(order))}
    IN  {f \o r : f \in here, r \in UNION {Chain(o) : o \in Perms(subs)}}

\* Lines 71-73: file_paths, a dict in insertion order, as a sequence of groups.
RECURSIVE BuildIndex(_, _)
BuildIndex(found, acc) ==
    IF found = <<>> THEN acc
    ELSE LET p == Head(found)
             hit == {i \in 1..Len(acc) : acc[i].name = BaseName(p)}
         IN  IF hit = {}
             THEN BuildIndex(Tail(found),
                             Append(acc, [name |-> BaseName(p), paths |-> <<p>>]))
             ELSE LET i == CHOOSE k \in hit : TRUE
                  IN  BuildIndex(Tail(found),
                        [acc EXCEPT ![i].paths = Append(@, p)])

\* Lines 77-85: the (directory, file) pairs the guide lists.
RECURSIVE GuideWalk(_, _, _)
GuideWalk(files, pats, d) ==
    {<<d, BaseName(p)>> : p \in {q \in FilesAt(files, d) : GuideShows(BaseName(q), pats)}}
    \cup UNION {GuideWalk(files, pats, s) :
                  s \in {t \in SubDirs(files, d) : GuideKeepDir(BaseName(t), pats)}}

\* Lines 94-95: the name a file of a multi-path group is copied under.
UniqueName(path) == Replace(PathJoin(RelativeDir(path), BaseName(path)), SEP, "_")

\* Lines 89-96: the name a path of a group is copied under.
OutName(group, path) == IF Len(group.paths) = 1 THEN group.name ELSE UniqueName(path)

\* ------------------------------------------------------------ state
VARIABLES
    tree,               \* the source files below root_dir (paths), unchanged
    ignoreFile,         \* <root_dir>/.takeoutignore
    gui,                \* the process runs the GUI (TRUE) or the command line
    takeoutExists,      \* <root_dir>/.takeout exists
    takeout,            \* its entries: name -> content
    pc,                 \* where the main flow is
    runs,               \* create_takeout calls so far
    convert_to_txt, empty_before, delete_timer,
    ignore_patterns, file_paths, gi, pi, copied_files_count,
    items,              \* os.listdir's entries not yet enumerated
    deleters,           \* deletion threads sleeping
    limit,              \* how many times the user runs the tool
    fresh,              \* history: this run's copies went into a directory it found or made empty
    failedAt,           \* history: the step of this run that raised, or "none"
    reported,           \* history: this run reported success
    scheduled,          \* history: this run started a deletion thread
    everScheduled,      \* history: some run started a deletion thread
    before,             \* history: .takeout as the renaming pass found it
    prev                \* history: the previous completed run and what it left

vars == <<tree, ignoreFile, limit, gui, takeoutExists, takeout, pc, runs,
          convert_to_txt, empty_before, delete_timer,
          ignore_patterns, file_paths, gi, pi, copied_files_count, items,
          deleters, fresh, failedAt, reported, scheduled, everScheduled,
          before, prev>>

env    == <<tree, ignoreFile, limit>>
params == <<convert_to_txt, empty_before, delete_timer>>
locals == <<ignore_patterns, file_paths, gi, pi, copied_files_count, items>>
hist   == <<fresh, failedAt, reported, scheduled, everScheduled, before, prev>>

\* ------------------------------------------------------------ contents
EmptyDir == [n \in {} |-> 0]

FileContent(path) == [kind |-> "file", src |-> path, listed |-> {}]
GuideContent(pairs) == [kind |-> "guide", src |-> <<>>, listed |-> pairs]

Put(dir, name, content) == (name :> content) @@ dir
Remove(dir, name) == [n \in DOMAIN dir \ {name} |-> dir[n]]

\* os.rename(src, dst) on a platform where it replaces dst.
Rename(dir, src, dst) == Put(Remove(dir, src), dst, dir[src])

\* Everything below root_dir: the sources, the ignore file, .takeout's entries.
AllFiles ==
    tree
    \cup (IF ignoreFile.present THEN {<<IgnoreFileName>>} ELSE {})
    \cup (IF takeoutExists THEN {<<DotTakeout, n>> : n \in DOMAIN takeout} ELSE {})

\* ------------------------------------------------------------ inputs
CONVERT_TO_TXT_NO_GUI_DEFAULT == TRUE
AUTO_DELETE_TIMER_SECONDS == 0
Timers == {AUTO_DELETE_TIMER_SECONDS, 2}

Candidates ==
    { <<N_x>>, <<N_x_txt>>, <<GuideName>>,
      <<N_a, N_x>>, <<N_a, N_x_txt>>,
      <<N_a, N_b, N_x>>, <<N_a_b, N_x>>,
      <<DotGit, N_x>>, <<N_a, DotTakeout, N_x>> }

Trees == {t \in SUBSET Candidates : Cardinality(t) <= MaxFiles}

NoPrev ==
    [done |-> FALSE, convert |-> FALSE, empty |-> FALSE, timer |-> 0,
     pats |-> {}, index |-> <<>>, out |-> EmptyDir]

\* The tool not started yet; .takeout absent, or left by an earlier use.
InitProgram ==
    /\ gui = FALSE
    /\ takeoutExists \in BOOLEAN
    /\ takeout = IF takeoutExists THEN Put(EmptyDir, N_old, FileContent(<<N_old>>)) ELSE EmptyDir
    /\ pc = "exited"
    /\ runs = 0
    /\ convert_to_txt = FALSE /\ empty_before = FALSE /\ delete_timer = 0
    /\ ignore_patterns = {} /\ file_paths = <<>> /\ gi = 1 /\ pi = 1
    /\ copied_files_count = 0 /\ items = {}
    /\ deleters = 0
    /\ fresh = FALSE /\ failedAt = "none" /\ reported = FALSE /\ scheduled = FALSE
    /\ everScheduled = FALSE /\ before = EmptyDir
    /\ prev = NoPrev

Init ==
    /\ tree \in Trees
    /\ ignoreFile \in IgnoreFiles
    /\ limit = 1
    /\ InitProgram

\* ------------------------------------------------------------ create_takeout
\* An exception leaves create_takeout: nothing in it catches one.
NoLocals ==
    /\ ignore_patterns' = {} /\ file_paths' = <<>> /\ gi' = 1 /\ pi' = 1
    /\ copied_files_count' = 0 /\ items' = {}

Raise(step) == pc' = "error" /\ failedAt' = step /\ prev' = NoPrev /\ NoLocals

\* Lines 42-52: the call, its arguments bound.
Enter(convert, empty, timer) ==
    /\ pc = "idle"
    /\ runs < limit
    /\ runs' = runs + 1
    /\ pc' = "empty"
    /\ convert_to_txt' = convert /\ empty_before' = empty /\ delete_timer' = timer
    /\ NoLocals
    /\ fresh' = FALSE /\ failedAt' = "none" /\ reported' = FALSE /\ scheduled' = FALSE
    /\ before' = EmptyDir
    /\ UNCHANGED <<env, gui, takeoutExists, takeout, deleters, everScheduled, prev>>

\* Lines 233-245: the command line's call; --convert-txt is or-ed with the default.
CliRun ==
    /\ ~gui
    /\ \E flag \in BOOLEAN, empty \in BOOLEAN, timer \in Timers :
          Enter(flag \/ CONVERT_TO_TXT_NO_GUI_DEFAULT, empty, timer)

\* Lines 187-200: the GUI's button, the directory and the timer field valid.
run_from_gui ==
    /\ gui
    /\ \E convert \in BOOLEAN, empty \in BOOLEAN, timer \in Timers :
          Enter(convert, empty, timer)

\* Lines 53-54: shutil.rmtree(takeout_dir).
EmptyBefore ==
    /\ pc = "empty"
    /\ pc' = "mkdir"
    /\ IF empty_before /\ takeoutExists
       THEN takeoutExists' = FALSE /\ takeout' = EmptyDir
       ELSE UNCHANGED <<takeoutExists, takeout>>
    /\ UNCHANGED <<env, gui, runs, params, locals, deleters, hist>>

EmptyBeforeFails ==
    /\ pc = "empty"
    /\ empty_before /\ takeoutExists
    /\ Raise("rmtree")
    /\ UNCHANGED <<env, gui, takeoutExists, takeout, runs, params, deleters,
                   fresh, reported, scheduled, everScheduled, before>>

\* Lines 56-57: os.makedirs(takeout_dir).
MakeDirs ==
    /\ pc = "mkdir"
    /\ pc' = "load"
    /\ takeoutExists' = TRUE
    /\ takeout' = IF takeoutExists THEN takeout ELSE EmptyDir
    /\ fresh' = (takeout' = EmptyDir)
    /\ UNCHANGED <<env, gui, runs, params, locals, deleters,
                   failedAt, reported, scheduled, everScheduled, before, prev>>

MakeDirsFails ==
    /\ pc = "mkdir"
    /\ ~takeoutExists
    /\ Raise("makedirs")
    /\ UNCHANGED <<env, gui, takeoutExists, takeout, runs, params, deleters,
                   fresh, reported, scheduled, everScheduled, before>>

\* Lines 59-60 with 30-40: the patterns, or none when the read raises.
LoadPatterns ==
    /\ pc = "load"
    /\ pc' = "walk"
    /\ \/ ignore_patterns' = ParsePatterns(ignoreFile)
       \/ ignoreFile.present /\ ignore_patterns' = {}
    /\ UNCHANGED <<env, gui, takeoutExists, takeout, runs, params,
                   file_paths, gi, pi, copied_files_count, items, deleters, hist>>

\* Lines 63-73: the copy walk builds file_paths.
WalkTree ==
    /\ pc = "walk"
    /\ pc' = "guide"
    /\ \E found \in WalkOrders(AllFiles, ignore_patterns, <<>>) :
          file_paths' = BuildIndex(found, <<>>)
    /\ UNCHANGED <<env, gui, takeoutExists, takeout, runs, params,
                   ignore_patterns, gi, pi, copied_files_count, items, deleters, hist>>

\* Lines 75-85: structure_guide.txt is opened for writing and written.
WriteGuide ==
    /\ pc = "guide"
    /\ takeoutExists
    /\ pc' = "copy"
    /\ takeout' = Put(takeout, GuideName,
                      GuideContent(GuideWalk(AllFiles, ignore_patterns, <<>>)))
    /\ UNCHANGED <<env, gui, takeoutExists, runs, params, locals, deleters, hist>>

WriteGuideFails ==
    /\ pc = "guide"
    /\ Raise("open")
    /\ UNCHANGED <<env, gui, takeoutExists, takeout, runs, params, deleters,
                   fresh, reported, scheduled, everScheduled, before>>

\* Lines 88-97: one shutil.copy2 of the copy loops.
CopyOne ==
    /\ pc = "copy"
    /\ gi <= Len(file_paths)
    /\ takeoutExists
    /\ LET group == file_paths[gi]
           path  == group.paths[pi]
       IN  /\ takeout' = Put(takeout, OutName(group, path), FileContent(path))
           /\ copied_files_count' = copied_files_count + 1
           /\ IF pi < Len(group.paths)
              THEN pi' = pi + 1 /\ gi' = gi
              ELSE pi' = 1 /\ gi' = gi + 1
    /\ UNCHANGED <<env, gui, takeoutExists, pc, runs, params,
                   ignore_patterns, file_paths, items, deleters, hist>>

\* CopyFails with the exception caught and the loop going on.
CopyFailsSwallowed ==
    /\ pc = "copy"
    /\ gi <= Len(file_paths)
    /\ failedAt' = "copy2"
    /\ IF pi < Len(file_paths[gi].paths)
       THEN pi' = pi + 1 /\ gi' = gi
       ELSE pi' = 1 /\ gi' = gi + 1
    /\ UNCHANGED <<env, gui, takeoutExists, takeout, pc, runs, params,
                   ignore_patterns, file_paths, copied_files_count, items, deleters,
                   fresh, reported, scheduled, everScheduled, before, prev>>

CopyFails ==
    /\ pc = "copy"
    /\ gi <= Len(file_paths)
    /\ Raise("copy2")
    /\ UNCHANGED <<env, gui, takeoutExists, takeout, runs, params, deleters,
                   fresh, reported, scheduled, everScheduled, before>>

\* Line 98: the loops are over.
CopyDone ==
    /\ pc = "copy"
    /\ gi > Len(file_paths)
    /\ pc' = "convert"
    /\ UNCHANGED <<env, gui, takeoutExists, takeout, runs, params, locals, deleters, hist>>

\* Lines 100-102: os.listdir(takeout_dir), when convert_to_txt.
ListDir ==
    /\ pc = "convert"
    /\ IF convert_to_txt
       THEN takeoutExists /\ items' = DOMAIN takeout /\ pc' = "rename"
       ELSE items' = items /\ pc' = "schedule"
    /\ before' = takeout
    /\ UNCHANGED <<env, gui, takeoutExists, takeout, runs, params,
                   ignore_patterns, file_paths, gi, pi, copied_files_count, deleters,
                   fresh, failedAt, reported, scheduled, everScheduled, prev>>

ListDirFails ==
    /\ pc = "convert"
    /\ convert_to_txt
    /\ Raise("listdir")
    /\ UNCHANGED <<env, gui, takeoutExists, takeout, runs, params, deleters,
                   fresh, reported, scheduled, everScheduled, before>>

\* Lines 102-104: the next entry of the listing, whichever it is.
RenameOne ==
    /\ pc = "rename"
    /\ \E item_name \in items :
          /\ items' = items \ {item_name}
          /\ IF item_name # GuideName
             THEN /\ takeoutExists
                  /\ item_name \in DOMAIN takeout
                  /\ takeout' = Rename(takeout, item_name, item_name \o TxtSuffix)
             ELSE takeout' = takeout
    /\ UNCHANGED <<env, gui, takeoutExists, pc, runs, params,
                   ignore_patterns, file_paths, gi, pi, copied_files_count, deleters, hist>>

RenameFails ==
    /\ pc = "rename"
    /\ items \ {GuideName} # {}
    /\ Raise("rename")
    /\ UNCHANGED <<env, gui, takeoutExists, takeout, runs, params, deleters,
                   fresh, reported, scheduled, everScheduled, before>>

RenameDone ==
    /\ pc = "rename"
    /\ items = {}
    /\ pc' = "schedule"
    /\ UNCHANGED <<env, gui, takeoutExists, takeout, runs, params, locals, deleters, hist>>

\* Lines 106-115: the deletion thread is started when the timer is positive.
StartDeletion ==
    /\ pc = "schedule"
    /\ pc' = "report"
    /\ IF delete_timer > 0
       THEN deleters' = deleters + 1 /\ scheduled' = TRUE /\ everScheduled' = TRUE
       ELSE UNCHANGED <<deleters, scheduled, everScheduled>>
    /\ UNCHANGED <<env, gui, takeoutExists, takeout, runs, params, locals,
                   fresh, failedAt, reported, before, prev>>

\* Lines 117-120: the success message (a modal dialog in the GUI), then the return.
Report ==
    /\ pc = "report"
    /\ pc' = "returned"
    /\ reported' = TRUE
    /\ NoLocals
    /\ prev' = [done |-> TRUE, convert |-> convert_to_txt, empty |-> empty_before,
                timer |-> delete_timer, pats |-> ignore_patterns, index |-> file_paths,
                out |-> takeout]
    /\ UNCHANGED <<env, gui, takeoutExists, takeout, runs, params, deleters,
                   fresh, failedAt, scheduled, everScheduled, before>>

\* ------------------------------------------------------------ the callers
\* Lines 201-204 and 179: run_from_gui returns (an error shown), the main loop goes on.
GuiReturns ==
    /\ gui
    /\ pc \in {"returned", "error"}
    /\ pc' = "idle"
    /\ UNCHANGED <<env, gui, takeoutExists, takeout, runs, params, locals, deleters, hist>>

\* Lines 246-247 and the end of the script, or the GUI's window closed: the process
\* ends and its daemon threads with it.
ProcessExits ==
    /\ \/ ~gui /\ pc \in {"returned", "error"}
       \/ gui /\ pc = "idle"
    /\ pc' = "exited"
    /\ deleters' = 0
    /\ UNCHANGED <<env, gui, takeoutExists, takeout, runs, params, locals, hist>>

\* The tool is started again on the same directory.
Launch ==
    /\ pc = "exited"
    /\ pc' = "idle"
    /\ gui' \in BOOLEAN
    /\ UNCHANGED <<env, takeoutExists, takeout, runs, params, locals, deleters, hist>>

\* ------------------------------------------------------------ the deletion thread
\* Lines 18-25: the sleep over, the folder is removed if it exists.
DeleteFolderAfterDelay ==
    /\ deleters > 0
    /\ deleters' = deleters - 1
    /\ takeoutExists' = FALSE
    /\ takeout' = EmptyDir
    /\ UNCHANGED <<env, gui, pc, runs, params, locals, hist>>

\* Lines 26-27: rmtree raises; the error is printed and the thread ends.
DeleteRaises ==
    /\ deleters > 0
    /\ takeoutExists
    /\ deleters' = deleters - 1
    /\ UNCHANGED <<env, gui, takeoutExists, takeout, pc, runs, params, locals, hist>>

Next ==
    \/ CliRun \/ run_from_gui
    \/ EmptyBefore \/ EmptyBeforeFails
    \/ MakeDirs \/ MakeDirsFails
    \/ LoadPatterns
    \/ WalkTree
    \/ WriteGuide \/ WriteGuideFails
    \/ CopyOne \/ CopyFails \/ CopyDone
    \/ ListDir \/ ListDirFails
    \/ RenameOne \/ RenameFails \/ RenameDone
    \/ StartDeletion
    \/ Report
    \/ GuiReturns \/ ProcessExits \/ Launch
    \/ DeleteFolderAfterDelay \/ DeleteRaises

\* One call of create_takeout, over every tree and ignore file.
Spec == Init /\ [][Next]_vars

\* Calls repeated in one process or in several, over the trees of one file name.
InitRepeat ==
    /\ tree \in Trees
    /\ limit = MaxRuns
    /\ InitProgram
    /\ ignoreFile = NoFile
    /\ tree \subseteq {<<N_x>>, <<N_x_txt>>, <<N_a, N_b, N_x>>, <<N_a_b, N_x>>}

SpecRepeat == InitRepeat /\ [][Next]_vars

\* ------------------------------------------------------------ claims
IndexPaths ==
    UNION {{file_paths[g].paths[k] : k \in 1..Len(file_paths[g].paths)} :
             g \in 1..Len(file_paths)}

GroupPaths(g) == {file_paths[g].paths[k] : k \in 1..Len(file_paths[g].paths)}

Copies(dir) == {n \in DOMAIN dir : dir[n].kind = "file"}

HasPrunedName(dirs) == \E i \in 1..Len(dirs) : dirs[i] \in {DotGit, DotTakeout}

\* A name the claims call ignored: listed as it is, or ending like a `*.ext` pattern.
NamedByPatterns(name, pats) ==
    \/ name \in pats
    \/ \E p \in pats :
          /\ Len(p) >= 2 /\ p[1] = "*" /\ p[2] = "."
          /\ Len(name) >= Len(p) - 1
          /\ \A i \in 2..Len(p) : name[Len(name) - Len(p) + i] = p[i]

AfterWalk == pc \in {"guide", "copy", "convert", "rename", "schedule", "report"}

\* C1: no file below a directory named .git or .takeout, at any depth, is in
\* file_paths, is copied into .takeout or is listed in the structure guide,
\* whatever the ignore file holds.
C1_PrunedDirsNeverOutput ==
    /\ \A p \in IndexPaths : ~HasPrunedName(DirOf(p))
    /\ \A n \in DOMAIN takeout :
          /\ takeout[n].kind = "file" => ~HasPrunedName(DirOf(takeout[n].src))
          /\ \A e \in takeout[n].listed : ~HasPrunedName(e[1])

C1_Witness ==
    /\ pc = "report"
    /\ ignore_patterns = {}
    /\ \E p \in tree : HasPrunedName(DirOf(p))
    /\ \E p \in tree : p \in IndexPaths
    /\ GuideName \in DOMAIN takeout /\ takeout[GuideName].kind = "guide"

\* C2: a file whose name is in the pattern set, or ends like one of its `*.ext`
\* patterns, is in neither file_paths, nor the copies of a run into an empty
\* .takeout, nor the guide, in whatever directory it lies.
C2_IgnoredNamesExcluded ==
    AfterWalk =>
        /\ \A p \in IndexPaths : ~NamedByPatterns(BaseName(p), ignore_patterns)
        /\ fresh =>
             \A n \in DOMAIN takeout :
                /\ takeout[n].kind = "file" =>
                      ~NamedByPatterns(BaseName(takeout[n].src), ignore_patterns)
                /\ \A e \in takeout[n].listed : ~NamedByPatterns(e[2], ignore_patterns)

C2_Witness ==
    /\ pc = "report"
    /\ copied_files_count > 0
    /\ \E p \in tree :
          /\ Len(p) = 2 /\ p[1] = N_a
          /\ BaseName(p) \notin ignore_patterns
          /\ NamedByPatterns(BaseName(p), ignore_patterns)
    /\ \E p \in tree : Len(p) = 1 /\ BaseName(p) \in ignore_patterns

\* The name the claim gives a file of a collision: its directory relative to
\* root_dir, separators replaced by underscores, joined to the base name.
RECURSIVE Underscored(_)
Underscored(dirs) ==
    IF dirs = <<>> THEN <<".">>
    ELSE IF Len(dirs) = 1 THEN dirs[1]
    ELSE Underscored(SubSeq(dirs, 1, Len(dirs) - 1)) \o <<"_">> \o dirs[Len(dirs)]

PrefixedName(p) == Underscored(DirOf(p)) \o <<"_">> \o BaseName(p)

\* C3: after the copy loops have run on an empty .takeout, a file name with N > 1
\* paths has exactly N copies there, each under its own directory-prefixed name,
\* and none under the bare name.
C3_CollisionsKeptApart ==
    (pc = "convert" /\ fresh) =>
        \A g \in 1..Len(file_paths) :
            Len(file_paths[g].paths) > 1 =>
                /\ Cardinality({n \in Copies(takeout) : takeout[n].src \in GroupPaths(g)})
                     = Len(file_paths[g].paths)
                /\ \A p \in GroupPaths(g) :
                      /\ PrefixedName(p) \in DOMAIN takeout
                      /\ takeout[PrefixedName(p)] = FileContent(p)
                /\ \A p, q \in GroupPaths(g) : p # q => PrefixedName(p) # PrefixedName(q)
                /\ file_paths[g].name \notin DOMAIN takeout

\* C4: with convert_to_txt, whatever the listing's order, the renaming pass leaves
\* structure_guide.txt and, for every other entry it found, that entry under its
\* name with .txt appended: none lost, none overwritten.
C4_RenameAppendsSuffix ==
    (pc = "schedule" /\ convert_to_txt) =>
        /\ DOMAIN takeout =
             {GuideName} \cup {n \o TxtSuffix : n \in DOMAIN before \ {GuideName}}
        /\ \A n \in DOMAIN before \ {GuideName} :
              /\ (n \o TxtSuffix) \in DOMAIN takeout
              /\ takeout[n \o TxtSuffix] = before[n]

\* C5: two runs in succession with empty_before, no timer, the same convert_to_txt
\* and the same patterns, which found the same files in the same order, leave the
\* same entries with the same contents.
C5_Idempotent ==
    ( /\ pc = "report"
      /\ prev.done
      /\ ~everScheduled
      /\ empty_before /\ prev.empty
      /\ delete_timer = 0 /\ prev.timer = 0
      /\ convert_to_txt = prev.convert
      /\ ignore_patterns = prev.pats
      /\ file_paths = prev.index )
    => takeout = prev.out

\* C6: when the run returns with a positive timer, .takeout exists and is not
\* empty; with a timer of 0 the run started no deletion thread.
C6_ExistsAtReturn ==
    [][(pc = "report" /\ pc' = "returned") =>
          /\ delete_timer > 0 => takeoutExists' /\ takeout' # EmptyDir
          /\ delete_timer = 0 => ~scheduled']_vars

\* The steps that create .takeout, write the guide, copy or rename.
Working == {"mkdir", "load", "walk", "guide", "copy", "convert", "rename"}

\* C7: a step that raises ends the run: nothing is copied or renamed after it, no
\* deletion is scheduled, no success is reported; a run that reports success has
\* done every step.
C7_FatalErrorsAbort ==
    /\ failedAt # "none" =>
          /\ pc \in {"error", "idle", "exited"}
          /\ ~reported /\ ~scheduled
          /\ failedAt = "copy2" /\ fresh =>
                \A n \in Copies(takeout) :
                   n \in {BaseName(takeout[n].src), UniqueName(takeout[n].src)}
    /\ reported => failedAt = "none"
    /\ pc = "report" =>
          /\ failedAt = "none"
          /\ gi > Len(file_paths)
          /\ copied_files_count = Cardinality(IndexPaths)
          /\ items = {}
          /\ delete_timer > 0 => scheduled

C7_Witness ==
    /\ pc = "error"
    /\ failedAt = "copy2"
    /\ convert_to_txt /\ delete_timer > 0
    /\ Cardinality(tree) > 1
    /\ \E n \in Copies(takeout) : takeout[n].src \in tree

\* C8: a deletion thread never removes .takeout while the main flow is at a step
\* that creates it, writes the guide, copies into it or renames in it.
C8_NoRace ==
    [][(deleters' = deleters - 1 /\ takeoutExists /\ ~takeoutExists') => pc \notin Working]_vars

\* C9: when the run completes, structure_guide.txt is the guide the run wrote and it
\* lists exactly the (directory, file) pairs of the paths in file_paths.
C9_GuideMatchesIndex ==
    (pc = "report" /\ takeoutExists) =>
        /\ GuideName \in DOMAIN takeout
        /\ takeout[GuideName].kind = "guide"
        /\ takeout[GuideName].listed = {<<DirOf(p), BaseName(p)>> : p \in IndexPaths}

\* C10: the copy loops give distinct paths distinct names: into an empty .takeout
\* they leave as many entries, structure_guide.txt aside, as the counter reports,
\* which is the number of paths in file_paths.
C10_NoCopyOverwrites ==
    (pc = "convert" /\ fresh) =>
        /\ copied_files_count = Cardinality(IndexPaths)
        /\ Cardinality(DOMAIN takeout \ {GuideName}) = copied_files_count

====
